---------------------------- MODULE Spec2Model ----------------------------
(***************************************************************************)
(* A model of dynterm, a planar flight-dynamics simulator: the normalised  *)
(* Angle type (vec.rs), the piecewise-linear coefficient table             *)
(* (interpolate.rs), the RK4 integrator (rk4.rs), the aerofoil and vehicle *)
(* dynamics (aero.rs) and the simulation driver (main.rs).                 *)
(*                                                                         *)
(* Numbers.  The program computes in f64.  Two models of f64 are used:     *)
(*   - "floats": binary floating point with a FloatPrecision-bit           *)
(*     significand and round-to-nearest-even, every value an integer       *)
(*     number of units of 2^-FloatFracBits.  Used for Angle, whose         *)
(*     invariant is a half-open interval and so depends on rounding.       *)
(*   - "rationals": exact fractions <<n, d>>, d > 0 in lowest terms, with  *)
(*     <<1,0>>, <<-1,0>> and <<0,0>> for +inf, -inf and NaN.  Used for the  *)
(*     algebra of interpolation, integration and dynamics.                 *)
(***************************************************************************)
EXTENDS Integers, Sequences, FiniteSets, TLC

VARIABLES
    angle,      \* vec.rs Angle.radians of the angle under test (float units)
    angOp,      \* the last Angle operation applied
    linPc,      \* "start" before Linear::new, "constructed" after it
    linData,    \* interpolate.rs Linear.data: a sequence of <<x, y>>
    linX,       \* the argument of the last Linear::interpolate call
    linOut,     \* the outcome of that call: [kind, i, val]
    rkPc,       \* which integrator entry point ran last: "idle", "rk4", "rk4_iter"
    rkArgs,     \* its arguments: [f, x, t, h, n]
    rkOut,      \* the state rk4 returned
    rkSeq,      \* the sequence of states rk4_iter returned
    aeroPc,     \* "idle", then "forces" or "dynamics": what was evaluated
    aeroIn,     \* the arguments: [veh, k, dk]
    aeroOut,    \* the results: [kind, lift, drag, moment, dir, force,
                \*   torque, accel], lift/drag/moment a pair wing, elevator
    pc,         \* main.rs: where the driver is: "control", "rate", "pose",
                \*   "sample", "check", "done"
    vehicle,    \* main.rs: the Vehicle
    step,       \* main.rs: the loop index i
    substep,    \* aero.rs apply_dynamics: the sub-step index i
    substeps,   \* aero.rs apply_dynamics: N
    samples,    \* main.rs: data[0..], the samples recorded so far
    old_motion, \* main.rs: the motion at the previous sample
    ticks,      \* history: the sub-steps integrated since the start
    veh0        \* history: the Vehicle as constructed

angleVars == <<angle, angOp>>
linVars == <<linPc, linData, linX, linOut>>
rkVars == <<rkPc, rkArgs, rkOut, rkSeq>>
aeroVars == <<aeroPc, aeroIn, aeroOut>>
driverVars == <<pc, vehicle, step, substep, substeps, samples, old_motion, ticks, veh0>>
vars == <<angleVars, linVars, rkVars, aeroVars, driverVars>>

---------------------------------------------------------------------------
(* Integer helpers *)

Abs(n) == IF n < 0 THEN -n ELSE n

Sgn(n) == IF n < 0 THEN -1 ELSE IF n = 0 THEN 0 ELSE 1

RECURSIVE Pow2(_)
Pow2(k) == IF k = 0 THEN 1 ELSE 2 * Pow2(k - 1)

RECURSIVE Gcd(_, _)
Gcd(a, b) == IF b = 0 THEN a ELSE Gcd(b, a % b)

---------------------------------------------------------------------------
(* f64 as exact rationals <<n, d>> *)

RNaN == <<0, 0>>

RNorm(n, d) ==
    IF d = 0 THEN <<Sgn(n), 0>>
    ELSE LET g == Gcd(Abs(n), Abs(d))
         IN  <<Sgn(d) * (n \div g), Abs(d) \div g>>

R(n) == <<n, 1>>

RIsFinite(a) == a[2] # 0

RNeg(a) == <<-a[1], a[2]>>

RAdd(a, b) ==
    IF a[2] = 0 /\ b[2] = 0 THEN (IF a[1] = b[1] THEN a ELSE RNaN)
    ELSE IF a[2] = 0 THEN a
    ELSE IF b[2] = 0 THEN b
    ELSE LET g == Gcd(a[2], b[2])
         IN  RNorm(a[1] * (b[2] \div g) + b[1] * (a[2] \div g),
                   (a[2] \div g) * b[2])

RSub(a, b) == RAdd(a, RNeg(b))

\* the factors are reduced crosswise, which leaves the product in lowest terms
RMul(a, b) ==
    IF a[2] = 0 \/ b[2] = 0 THEN <<Sgn(a[1]) * Sgn(b[1]), 0>>
    ELSE LET g1 == Gcd(Abs(a[1]), b[2])
             g2 == Gcd(Abs(b[1]), a[2])
         IN  <<(a[1] \div g1) * (b[1] \div g2), (a[2] \div g2) * (b[2] \div g1)>>

\* 1/a: 1/0 is +inf, 1/inf is 0, 1/NaN is NaN
RInv(a) ==
    IF a[2] = 0 THEN (IF a[1] = 0 THEN RNaN ELSE <<0, 1>>)
    ELSE IF a[1] = 0 THEN <<1, 0>>
    ELSE <<Sgn(a[1]) * a[2], Abs(a[1])>>

RDiv(a, b) == RMul(a, RInv(b))

\* comparisons (false when either side is NaN)
RLt(a, b) ==
    /\ a # RNaN
    /\ b # RNaN
    /\ IF a[2] = 0 \/ b[2] = 0
       THEN (IF a[2] = 0 /\ b[2] = 0 THEN a[1] < b[1]
             ELSE IF a[2] = 0 THEN a[1] < 0 ELSE b[1] > 0)
       ELSE a[1] * b[2] < b[1] * a[2]

RLe(a, b) == a # RNaN /\ b # RNaN /\ (a = b \/ RLt(a, b))

---------------------------------------------------------------------------
(* f64 as binary floating point of reduced precision *)

\* bits of significand (f64: 53)
FloatPrecision == 5
\* one unit is 2^-FloatFracBits (the subnormal spacing of the format)
FloatFracBits == 10

FloatOne == Pow2(FloatFracBits)

\* the exponent k >= 0 such that a < 2^(FloatPrecision + k), least such
RECURSIVE FloatExp(_, _)
FloatExp(a, k) ==
    IF a < Pow2(FloatPrecision + k) THEN k ELSE FloatExp(a, k + 1)

\* the float nearest to n/d units, ties to the even significand (d > 0)
RoundQ(n, d) ==
    LET a    == Abs(n)
        q    == Pow2(FloatExp(a \div d, 0))
        m    == a \div (d * q)
        rem2 == 2 * (a - m * d * q)
        up   == \/ rem2 > d * q
                \/ rem2 = d * q /\ m % 2 = 1
    IN  Sgn(n) * q * (IF up THEN m + 1 ELSE m)

\* the float nearest to the integer number of units v
RoundF(v) == RoundQ(v, 1)

IsFloat(v) == RoundF(v) = v

\* f64 +, -: the exact sum of two floats, rounded
FAdd(a, b) == RoundF(a + b)
FSub(a, b) == RoundF(a - b)

\* f64 *: the exact product (units^2), rounded
FMul(a, b) == RoundQ(a * b, FloatOne)

\* f64 % (fmod): the remainder has the sign of the dividend and is exact
FRem(a, b) == Sgn(a) * (Abs(a) % Abs(b))

\* std::f64::consts::PI as a fraction, and as a float
PiApprox == <<355, 113>>

PI == RoundQ(PiApprox[1] * FloatOne, PiApprox[2])

\* f64::to_radians: the argument times the rounded constant PI/180
DegToRad == RoundQ(PiApprox[1] * FloatOne, PiApprox[2] * 180)

to_radians(degrees) == FMul(degrees, DegToRad)

---------------------------------------------------------------------------
(* vec.rs: Angle *)

\* 2.0 * PI: doubling a float is exact
TwoPi == FMul(2 * FloatOne, PI)

\* Angle::clamp
clamp(radians) ==
    LET r == FRem(radians, TwoPi)
    IN  IF r < 0 THEN FAdd(r, TwoPi) ELSE r

\* Angle::from_radians, Angle::from_degrees: the stored radians
from_radians(radians) == clamp(radians)

from_degrees(degrees) == clamp(to_radians(degrees))

\* impl Add / Sub for Angle
AngleAddOp(self, other) == from_radians(FAdd(self, other))

AngleSubOp(self, other) == from_radians(FSub(self, other))

\* impl AddAssign / SubAssign for Angle
AngleAddAssignOp(self, other) == clamp(FAdd(self, other))

AngleSubAssignOp(self, other) == clamp(FSub(self, other))

\* radians handed to the constructors range over the floats of
\* magnitude up to MaxTurns turns and a bit
MaxTurns == 1

RadInputs == {v \in -(MaxTurns * TwoPi + FloatOne)..(MaxTurns * TwoPi + FloatOne) : IsFloat(v)}

\* degrees handed to from_degrees: multiples of 15 degrees and small values
DegInputs ==
    {RoundF(15 * k * FloatOne) : k \in -(24 * MaxTurns)..(24 * MaxTurns)}
        \cup {v \in -FloatOne..FloatOne : IsFloat(v)}

\* the Angle values another operand can hold
OtherAngles == {from_radians(r) : r \in RadInputs}

AngleInit ==
    /\ angle = from_radians(0)
    /\ angOp = "new"

AngleFromRadians ==
    \E r \in RadInputs :
        /\ angle' = from_radians(r)
        /\ angOp' = "from_radians"
        /\ UNCHANGED <<linVars, rkVars, aeroVars, driverVars>>

AngleFromDegrees ==
    \E d \in DegInputs :
        /\ angle' = from_degrees(d)
        /\ angOp' = "from_degrees"
        /\ UNCHANGED <<linVars, rkVars, aeroVars, driverVars>>

AngleAdd ==
    \E o \in OtherAngles :
        /\ angle' = AngleAddOp(angle, o)
        /\ angOp' = "add"
        /\ UNCHANGED <<linVars, rkVars, aeroVars, driverVars>>

AngleSub ==
    \E o \in OtherAngles :
        /\ angle' = AngleSubOp(angle, o)
        /\ angOp' = "sub"
        /\ UNCHANGED <<linVars, rkVars, aeroVars, driverVars>>

AngleAddAssign ==
    \E o \in OtherAngles :
        /\ angle' = AngleAddAssignOp(angle, o)
        /\ angOp' = "add_assign"
        /\ UNCHANGED <<linVars, rkVars, aeroVars, driverVars>>

AngleSubAssign ==
    \E o \in OtherAngles :
        /\ angle' = AngleSubAssignOp(angle, o)
        /\ angOp' = "sub_assign"
        /\ UNCHANGED <<linVars, rkVars, aeroVars, driverVars>>

AngleNext ==
    \/ AngleFromRadians
    \/ AngleFromDegrees
    \/ AngleAdd
    \/ AngleSub
    \/ AngleAddAssign
    \/ AngleSubAssign

---------------------------------------------------------------------------
(* interpolate.rs: Linear *)

\* width of usize in the model (the program's is 64)
UsizeBits == 16

UsizeModulus == Pow2(UsizeBits)

\* <[T]>::binary_search_by with the comparator probe.0.partial_cmp(&x):
\* Ok(index of a match) or Err(insertion index), indices from 0
RECURSIVE binary_search_by(_, _, _, _)
binary_search_by(data, x, left, right) ==
    IF left >= right THEN [ok |-> FALSE, idx |-> left]
    ELSE LET mid   == left + ((right - left) \div 2)
             probe == data[mid + 1][1]
         IN  IF RLt(probe, x) THEN binary_search_by(data, x, mid + 1, right)
             ELSE IF RLt(x, probe) THEN binary_search_by(data, x, left, mid)
             ELSE [ok |-> TRUE, idx |-> mid]

\* the blend of samples i and j (indices from 0) at x
Blend(data, i, j, x) ==
    LET t == RDiv(RSub(x, data[i + 1][1]), RSub(data[j + 1][1], data[i + 1][1]))
    IN  RAdd(data[i + 1][2], RMul(t, RSub(data[j + 1][2], data[i + 1][2])))

Panic == [kind |-> "panic", i |-> 0, val |-> RNaN]

\* interpolate with the insertion index of a failed search taken as i,
\* without the step back to the sample before it
interpolate_at_insertion_index(data, x, debug) ==
    LET bs == binary_search_by(data, x, 0, Len(data))
        i  == bs.idx
        j  == (i + 1) % UsizeModulus
    IN  IF i >= Len(data) \/ j >= Len(data) THEN Panic
        ELSE [kind |-> "value", i |-> i, val |-> Blend(data, i, j, x)]

\* Linear::interpolate.  `debug` is whether the build checks integer
\* overflow (a debug build panics on it, a release build wraps).
interpolate(data, x, debug) ==
    LET bs == binary_search_by(data, x, 0, Len(data))
        underflow == ~bs.ok /\ bs.idx = 0
        i  == IF bs.ok THEN bs.idx ELSE (bs.idx - 1) % UsizeModulus
        overflow == i + 1 >= UsizeModulus
        j  == (i + 1) % UsizeModulus
    IN  IF debug /\ (underflow \/ overflow) THEN Panic
        ELSE IF i >= Len(data) \/ j >= Len(data) THEN Panic
        ELSE [kind |-> "value", i |-> i, val |-> Blend(data, i, j, x)]

\* Linear::new
new(data) == data

\* tables handed to Linear::new: up to MaxLen samples with x in 0..MaxX
\* and y 0 or 1, in any order, and the table [(0,0),(10,1)]
MaxLen == 3
MaxX == 2

Samples == {<<R(x), R(y)>> : x \in 0..MaxX, y \in 0..1}

ExampleTable == <<<<R(0), R(0)>>, <<R(10), R(1)>>>>

Tables == UNION {[1..n -> Samples] : n \in 0..MaxLen} \cup {ExampleTable}

\* arguments of interpolate: the halves from -1 to MaxX + 1, and 5, 10, 11
QueryXs == {RNorm(k, 2) : k \in -2..(2 * MaxX + 2)} \cup {R(5), R(10), R(11)}

LinInit ==
    /\ linPc = "start"
    /\ linData = <<>>
    /\ linX = R(0)
    /\ linOut = [kind |-> "none", i |-> 0, val |-> R(0)]

LinearNew ==
    /\ linPc = "start"
    /\ \E data \in Tables : linData' = new(data)
    /\ linPc' = "constructed"
    /\ UNCHANGED <<linX, linOut, angleVars, rkVars, aeroVars, driverVars>>

LinearInterpolate ==
    /\ linPc = "constructed"
    /\ \E x \in QueryXs, debug \in BOOLEAN :
        /\ linX' = x
        /\ linOut' = interpolate(linData, x, debug)
    /\ UNCHANGED <<linPc, linData, angleVars, rkVars, aeroVars, driverVars>>

LinNext == LinearNew \/ LinearInterpolate

---------------------------------------------------------------------------
(* vec.rs: Vector, and the same algebra on any tuple of numbers *)

VAdd(a, b) == [k \in DOMAIN a |-> RAdd(a[k], b[k])]

VSub(a, b) == [k \in DOMAIN a |-> RSub(a[k], b[k])]

\* impl Mul<Vector> for f64
VScale(s, v) == [k \in DOMAIN v |-> RMul(v[k], s)]

\* impl Div<f64> for Vector
VDiv(v, s) == [k \in DOMAIN v |-> RDiv(v[k], s)]

---------------------------------------------------------------------------
(* vec.rs in exact arithmetic: Angle, Vector.  Radians are rationals, pi   *)
(* is PiApprox, and sin, cos and atan2 are exact on whole quarter turns    *)
(* and axis-aligned vectors, the only arguments the model hands them.      *)

PiR == PiApprox

TwoPiR == <<2 * PiApprox[1], PiApprox[2]>>

\* f64 %: a - b * trunc(a / b)
RRem(a, b) ==
    LET q == RDiv(a, b)
        trunc == Sgn(q[1]) * (Abs(q[1]) \div q[2])
    IN  RSub(a, RMul(b, R(trunc)))

\* Angle::clamp
clamp_exact(radians) ==
    LET r == RRem(radians, TwoPiR)
    IN  IF RLt(r, R(0)) THEN RAdd(r, TwoPiR) ELSE r

\* f64::to_radians, f64::to_degrees
to_radians_exact(degrees) == RDiv(RMul(degrees, PiR), R(180))

to_degrees(radians) == RDiv(RMul(radians, R(180)), PiR)

\* Angle::from_radians, Angle::from_degrees
Angle_from_radians(radians) == clamp_exact(radians)

Angle_from_degrees(degrees) == clamp_exact(to_radians_exact(degrees))

\* impl Add, Sub for Angle
Angle_add(self, other) == Angle_from_radians(RAdd(self, other))

Angle_sub(self, other) == Angle_from_radians(RSub(self, other))

\* Angle::deg
deg(self) ==
    LET d == to_degrees(self)
    IN  IF d = R(360) THEN R(0) ELSE d

\* Angle::nice_deg
nice_deg(self) ==
    LET d == to_degrees(self)
    IN  IF RLt(R(180), d) THEN RSub(d, R(360)) ELSE d

\* the number of quarter turns in r, modulo 4 (r a whole number of them)
QuarterTurns(r) ==
    LET q == RDiv(RMul(r, R(2)), PiR)
    IN  IF q[2] = 1 THEN ((q[1] % 4) + 4) % 4 ELSE -1

\* cos and sin at 0, 1, 2 and 3 quarter turns
cos(r) == <<R(1), R(0), R(-1), R(0)>>[QuarterTurns(r) + 1]

sin(r) == <<R(0), R(1), R(0), R(-1)>>[QuarterTurns(r) + 1]

\* f64::atan2 on a finite axis-aligned vector; atan2(0, 0) = 0
atan2(y, x) ==
    CASE y = R(0) /\ x[2] # 0 /\ x[1] >= 0 -> R(0)
      [] y = R(0) /\ x[2] # 0 /\ x[1] < 0 -> PiR
      [] x = R(0) /\ y[2] # 0 /\ y[1] > 0 -> <<PiR[1], 2 * PiR[2]>>
      [] x = R(0) /\ y[2] # 0 /\ y[1] < 0 -> <<-PiR[1], 2 * PiR[2]>>

\* Vector::from_radians
Vector_from_radians(m, r) == <<RMul(m, cos(r)), RMul(m, sin(r))>>

\* Vector::cross
cross(self, other) == RSub(RMul(self[1], other[2]), RMul(self[2], other[1]))

\* Vector::orientation
orientation(self) == Angle_from_radians(atan2(self[2], self[1]))

\* Vector::magnitude squared: magnitude().powi(2) without the square root
magnitude_powi2(self) == RAdd(RMul(self[1], self[1]), RMul(self[2], self[2]))

\* Angle::unit
Angle_unit(self) == Vector_from_radians(R(1), self)

---------------------------------------------------------------------------
(* Kinematics: a Vector and an angular component, <<x, y, ang>>.  Its      *)
(* source is not among the files; it is modelled from its uses in aero.rs  *)
(* and main.rs and from the data model of the specification.               *)

\* Kinematics::new_raw(vec, ang)
Kinematics_new_raw(vec, ang) == <<vec[1], vec[2], ang>>

\* Kinematics::new(vec, angle)
Kinematics_new(vec, a) == <<vec[1], vec[2], a>>

Kinematics_vec(k) == <<k[1], k[2]>>

\* Kinematics::angle: the angular component as an Angle
Kinematics_angle(k) == Angle_from_radians(k[3])

\* Kinematics::direction: the orientation of the linear component
Kinematics_direction(k) == orientation(Kinematics_vec(k))

\* Kinematics::y
Kinematics_y(k) == k[2]

---------------------------------------------------------------------------
(* util.rs: the atmosphere *)

\* floor of a finite rational
RFloor(a) == a[1] \div a[2]

\* isa_density(altitude) / isa_density(0).  powf and exp have no rational
\* value: each branch of isa_density is replaced by a table over whole
\* kilometres that is positive, non-increasing and 1 at sea level.
atmo_density(altitude) ==
    LET km == RFloor(RDiv(altitude, R(1000)))
        tropo == <<100, 89, 78, 69, 61, 53, 47, 40, 35, 30, 26, 22>>
        halvings == (km - 11) \div 4
    IN  IF RLe(altitude, R(11000))
        THEN (IF km < 0 THEN RNorm(100 - 12 * km, 100) ELSE RNorm(tropo[km + 1], 100))
        ELSE RNorm(22, 100 * Pow2(IF halvings > 10 THEN 10 ELSE halvings))

---------------------------------------------------------------------------
(* aero.rs: Aerofoil, a record [area, chord, pitch, cl, cd, cm] *)

\* Aerofoil::new
Aerofoil_new(area, chord, pitch, cl, cd, cm) ==
    [area |-> area, chord |-> chord, pitch |-> pitch, cl |-> cl, cd |-> cd, cm |-> cm]

\* a set_pitch that overwrites the chord as well
set_pitch_and_chord(self, pitch) == [self EXCEPT !.pitch = pitch, !.chord = pitch]

\* Aerofoil::set_pitch
set_pitch(self, pitch) == [self EXCEPT !.pitch = pitch]

\* Aerofoil::aoa
aoa(self, k, dk) ==
    Angle_sub(Angle_add(Kinematics_angle(k), self.pitch), Kinematics_direction(dk))

\* a dynamic pressure that takes the speed to be 10 m/s whatever the velocity
dyn_pressure_at_fixed_speed(self, k, dk) ==
    RMul(RMul(<<1, 2>>, atmo_density(Kinematics_y(k))), R(100))

\* Aerofoil::dyn_pressure
dyn_pressure(self, k, dk) ==
    RMul(RMul(<<1, 2>>, atmo_density(Kinematics_y(k))), magnitude_powi2(Kinematics_vec(dk)))

\* the coefficient looked up in a table at the angle of attack, and
\* whether that lookup aborts
Lookup(table, self, k, dk) == interpolate(table, deg(aoa(self, k, dk)), FALSE)

\* the product (self.area * coeff) * self.dyn_pressure(k, dk).  Zero times a
\* finite pressure is zero; the pressure is not computed then (the exact
\* square of the speed can exceed the integers of the model checker).
TimesPressure(ac, self, k, dk) ==
    IF ac = R(0) /\ RIsFinite(Kinematics_y(k)) /\ RIsFinite(dk[1]) /\ RIsFinite(dk[2])
    THEN R(0)
    ELSE RMul(ac, dyn_pressure(self, k, dk))

\* Aerofoil::lift_force
lift_force(self, k, dk) ==
    LET lift_coeff == Lookup(self.cl, self, k, dk).val
    IN  Vector_from_radians(
            TimesPressure(RMul(self.area, lift_coeff), self, k, dk),
            RAdd(Kinematics_direction(dk), RDiv(PiR, R(2))))

\* Aerofoil::drag_force
drag_force(self, k, dk) ==
    LET drag_coeff == Lookup(self.cd, self, k, dk).val
    IN  Vector_from_radians(
            TimesPressure(RMul(self.area, drag_coeff), self, k, dk),
            RAdd(Kinematics_direction(dk), PiR))

\* Aerofoil::pitching_moment
pitching_moment(self, k, dk) ==
    LET pitch_coeff == Lookup(self.cm, self, k, dk).val
    IN  RMul(TimesPressure(RMul(self.area, pitch_coeff), self, k, dk), self.chord)

\* a coefficient lookup of the aerofoil aborts the program
Aerofoil_panics(self, k, dk) ==
    \E table \in {self.cl, self.cd, self.cm} : Lookup(table, self, k, dk).kind = "panic"

---------------------------------------------------------------------------
(* aero.rs: Vehicle, a record                                              *)
(* [mass, length, moment, position, motion, wing, elev]                    *)

\* Vehicle::new
Vehicle_new(mass, length, position, motion, wing, elev) ==
    [mass |-> mass, length |-> length,
     moment |-> RDiv(RMul(mass, RMul(length, length)), R(12)),
     position |-> position, motion |-> motion, wing |-> wing, elev |-> elev]

\* gravitational acceleration, m/s^2, downwards
Gravity == <<R(0), <<-981, 100>>>>

\* Vehicle::calculate_dynamics: the forces F_w, F_e, T, W
F_w(self, k, dk) == VAdd(lift_force(self.wing, k, dk), drag_force(self.wing, k, dk))

F_e(self, k, dk) == VAdd(lift_force(self.elev, k, dk), drag_force(self.elev, k, dk))

Thrust(self, k, dk) == Vector_from_radians(R(0), RAdd(Kinematics_angle(k), PiR))

Weight(self) == VScale(self.mass, Gravity)

\* Vehicle::calculate_dynamics: the position vector of the elevator
r_e(self, k) ==
    Vector_from_radians(RDiv(self.length, R(2)), RAdd(Kinematics_angle(k), PiR))

\* Vehicle::calculate_dynamics: the two arguments of Kinematics::new_raw
net_force(self, k, dk) ==
    VAdd(VAdd(VAdd(F_w(self, k, dk), F_e(self, k, dk)), Thrust(self, k, dk)), Weight(self))

\* a net moment in which the wing's force acts at the elevator's lever arm too
net_moment_with_wing_lever(self, k, dk) ==
    RAdd(RAdd(pitching_moment(self.wing, k, dk), pitching_moment(self.elev, k, dk)),
         cross(r_e(self, k), VAdd(F_w(self, k, dk), F_e(self, k, dk))))

net_moment(self, k, dk) ==
    RAdd(RAdd(pitching_moment(self.wing, k, dk), pitching_moment(self.elev, k, dk)),
         cross(r_e(self, k), F_e(self, k, dk)))

\* Vehicle::calculate_dynamics
calculate_dynamics(self, k, dk) ==
    VDiv(Kinematics_new_raw(net_force(self, k, dk), net_moment(self, k, dk)), self.mass)

\* a coefficient lookup of calculate_dynamics aborts the program
Vehicle_panics(self, k, dk) ==
    Aerofoil_panics(self.wing, k, dk) \/ Aerofoil_panics(self.elev, k, dk)

---------------------------------------------------------------------------
(* rk4.rs.  A derivative closure is a record; Deriv applies it. *)

\* f(t, x) for the closure f
Deriv(f, t, x) ==
    CASE f.kind = "const" -> f.c
      \* aero.rs: |t, dk| t * self.calculate_dynamics(&self.position, &dk)
      [] f.kind = "accel" -> VScale(t, calculate_dynamics(f.veh, f.veh.position, x))
      \* aero.rs: |t, _| t * self.motion
      [] f.kind = "velocity" -> VScale(t, f.veh.motion)

\* the fractions of h at which the four slopes are taken: 0, 0.5, 0.5, 1
Nodes == <<R(0), <<1, 2>>, <<1, 2>>, R(1)>>

\* the slopes k1..k4 in turn: ks holds those computed so far;
\* k1 = h * f(t, x) and k(s) = h * f(t + c * h, x + c * k(s-1)), c = Nodes[s]
RECURSIVE rk4_slopes(_, _, _, _, _)
rk4_slopes(f, x, t, h, ks) ==
    IF Len(ks) = Len(Nodes) THEN ks
    ELSE LET s  == Len(ks) + 1
             ts == IF s = 1 THEN t ELSE RAdd(t, RMul(Nodes[s], h))
             xs == IF s = 1 THEN x ELSE VAdd(x, VScale(Nodes[s], ks[s - 1]))
         IN  rk4_slopes(f, x, t, h, Append(ks, VScale(h, Deriv(f, ts, xs))))

\* the update with the four slopes weighted alike
rk4_update_equal_weights(x, ks) ==
    VAdd(x, VDiv(VAdd(VAdd(VAdd(ks[1], ks[2]), ks[3]), ks[4]), R(6)))

\* x + (k1 + (2.0 * k2) + (2.0 * k3) + k4) / 6.0
rk4_update(x, ks) ==
    VAdd(x, VDiv(VAdd(VAdd(VAdd(ks[1], VScale(R(2), ks[2])), VScale(R(2), ks[3])), ks[4]), R(6)))

\* rk4
rk4(f, x, t, h) == rk4_update(x, rk4_slopes(f, x, t, h, <<>>))

\* the loop of rk4_iter: xs holds x[0..i], t the time of x[i]
RECURSIVE rk4_iter_loop(_, _, _, _, _)
rk4_iter_loop(f, xs, t, h, n) ==
    IF Len(xs) >= n + 1 THEN xs
    ELSE rk4_iter_loop(f,
             Append(xs, rk4_update(xs[Len(xs)], rk4_slopes(f, xs[Len(xs)], t, h, <<>>))),
             RAdd(t, h), h, n)

\* rk4_iter
rk4_iter(f, x0, t0, h, n) == rk4_iter_loop(f, <<x0>>, t0, h, n)

\* arguments of the integrator: states and constant derivatives with
\* components in -MaxCoord..MaxCoord, steps 0, 1, 1/2, 1/3, 1/100, -1/2,
\* start times 0 and 1, up to MaxIter steps
MaxCoord == 1
MaxIter == 3

RkCoords == {R(k) : k \in -MaxCoord..MaxCoord} \cup {<<-981, 100>>}

RkVectors == {<<a, b>> : a \in RkCoords, b \in RkCoords}

RkSteps == {R(0), R(1), <<1, 2>>, <<1, 3>>, <<1, 100>>, <<-1, 2>>}

RkTimes == {R(0), R(1)}

RkClosures == {[kind |-> "const", c |-> c] : c \in RkVectors}

\* no integrator call is in flight and none is asked for
RkIdle ==
    /\ rkPc = "idle"
    /\ rkArgs = [f |-> [kind |-> "const", c |-> <<R(0), R(0)>>],
                 x |-> <<R(0), R(0)>>, t |-> R(0), h |-> R(0), n |-> 0]
    /\ rkOut = <<R(0), R(0)>>
    /\ rkSeq = <<>>

\* the caller's arguments are drawn, the call is still to be made
RkInit ==
    /\ rkPc = "idle"
    /\ \E f \in RkClosures, x \in RkVectors, t \in RkTimes, h \in RkSteps, n \in 0..MaxIter :
        rkArgs = [f |-> f, x |-> x, t |-> t, h |-> h, n |-> n]
    /\ rkOut = <<R(0), R(0)>>
    /\ rkSeq = <<>>

Rk4Call ==
    /\ rkPc = "idle"
    /\ rkOut' = rk4(rkArgs.f, rkArgs.x, rkArgs.t, rkArgs.h)
    /\ rkPc' = "rk4"
    /\ UNCHANGED <<rkArgs, rkSeq, angleVars, linVars, aeroVars, driverVars>>

Rk4IterCall ==
    /\ rkPc = "idle"
    /\ rkSeq' = rk4_iter(rkArgs.f, rkArgs.x, rkArgs.t, rkArgs.h, rkArgs.n)
    /\ rkPc' = "rk4_iter"
    /\ UNCHANGED <<rkArgs, rkOut, angleVars, linVars, aeroVars, driverVars>>

RkNext == Rk4Call \/ Rk4IterCall

---------------------------------------------------------------------------
(* The aerofoil and vehicle functions applied to drawn arguments *)

Zero2 == <<R(0), R(0)>>

\* coefficient tables over the degrees [0, 360], and one over [0, 180]
FullLift == <<<<R(0), R(0)>>, <<R(90), R(1)>>, <<R(180), R(0)>>,
              <<R(270), R(-1)>>, <<R(360), R(0)>>>>

FullDrag == <<<<R(0), <<1, 100>>>>, <<R(180), R(1)>>, <<R(360), <<1, 100>>>>>>

FullMoment == <<<<R(0), R(0)>>, <<R(90), <<-1, 10>>>>, <<R(360), R(0)>>>>

HalfLift == <<<<R(0), R(0)>>, <<R(90), R(1)>>, <<R(180), R(0)>>>>

TableSets ==
    {[cl |-> FullLift, cd |-> FullDrag, cm |-> FullMoment],
     [cl |-> HalfLift, cd |-> FullDrag, cm |-> FullMoment]}

QuarterAngles == {RMul(R(q), RDiv(PiR, R(2))) : q \in 0..3}

AeroVehicles ==
    {Vehicle_new(m[1], m[2], Zero2 \o <<R(0)>>, Zero2 \o <<R(0)>>,
                 Aerofoil_new(a[1], R(8), Angle_from_degrees(R(0)), t.cl, t.cd, t.cm),
                 Aerofoil_new(a[2], R(4), Angle_from_degrees(ep), t.cl, t.cd, t.cm)) :
        m \in {<<R(1), R(2)>>, <<R(100000), <<233, 5>>>>},
        a \in {<<R(0), R(0)>>, <<R(280), R(40)>>}, ep \in {R(0), R(-3)},
        t \in TableSets}

AeroPoses ==
    {Kinematics_new(<<R(0), y>>, a) :
        y \in {R(0), R(100), R(7300), R(12000)}, a \in QuarterAngles}

AeroRates ==
    {Kinematics_new_raw(v, R(0)) :
        v \in {Zero2, <<R(10), R(0)>>, <<R(0), R(-10)>>, <<R(-10), R(0)>>, <<R(0), R(10)>>}}

NoAeroOut ==
    [kind |-> "none", lift |-> <<Zero2, Zero2>>, drag |-> <<Zero2, Zero2>>,
     moment |-> Zero2, dir |-> R(0), force |-> Zero2, torque |-> R(0),
     accel |-> Zero2 \o <<R(0)>>]

AeroIdle ==
    /\ aeroPc = "idle"
    /\ aeroIn = [veh |-> Vehicle_new(R(1), R(2), Zero2 \o <<R(0)>>, Zero2 \o <<R(0)>>,
                     Aerofoil_new(R(0), R(8), R(0), FullLift, FullDrag, FullMoment),
                     Aerofoil_new(R(0), R(4), R(0), FullLift, FullDrag, FullMoment)),
                 k |-> Zero2 \o <<R(0)>>, dk |-> Zero2 \o <<R(0)>>]
    /\ aeroOut = NoAeroOut

AeroInit ==
    /\ aeroPc = "idle"
    /\ \E veh \in AeroVehicles, k \in AeroPoses, dk \in AeroRates :
        aeroIn = [veh |-> veh, k |-> k, dk |-> dk]
    /\ aeroOut = NoAeroOut

\* lift_force, drag_force and pitching_moment of the wing and the elevator
AerofoilForces ==
    /\ aeroPc = "idle"
    /\ aeroPc' = "forces"
    /\ LET veh == aeroIn.veh
           k   == aeroIn.k
           dk  == aeroIn.dk
       IN  aeroOut' =
             IF Vehicle_panics(veh, k, dk) THEN [NoAeroOut EXCEPT !.kind = "panic"]
             ELSE [NoAeroOut EXCEPT
                     !.kind = "value",
                     !.lift = <<lift_force(veh.wing, k, dk), lift_force(veh.elev, k, dk)>>,
                     !.drag = <<drag_force(veh.wing, k, dk), drag_force(veh.elev, k, dk)>>,
                     !.moment = <<pitching_moment(veh.wing, k, dk),
                                  pitching_moment(veh.elev, k, dk)>>,
                     !.dir = Kinematics_direction(dk)]
    /\ UNCHANGED <<aeroIn, angleVars, linVars, rkVars, driverVars>>

\* calculate_dynamics, with the net force and moment it divides
VehicleCalculateDynamics ==
    /\ aeroPc = "idle"
    /\ aeroPc' = "dynamics"
    /\ LET veh == aeroIn.veh
           k   == aeroIn.k
           dk  == aeroIn.dk
       IN  aeroOut' =
             IF Vehicle_panics(veh, k, dk) THEN [NoAeroOut EXCEPT !.kind = "panic"]
             ELSE [NoAeroOut EXCEPT
                     !.kind = "value",
                     !.dir = Kinematics_direction(dk),
                     !.force = net_force(veh, k, dk),
                     !.torque = net_moment(veh, k, dk),
                     !.accel = calculate_dynamics(veh, k, dk)]
    /\ UNCHANGED <<aeroIn, angleVars, linVars, rkVars, driverVars>>

AeroNext == AerofoilForces \/ VehicleCalculateDynamics

---------------------------------------------------------------------------
(* aero.rs: Vehicle::apply_dynamics, one sub-step in two halves *)

\* the time step h = 1.0 / N
time_step(N) == RDiv(R(1), R(N))

\* self.motion = rk4(f, self.motion, 0.0, h)
update_motion(self, h) ==
    [self EXCEPT !.motion = rk4([kind |-> "accel", veh |-> self], self.motion, R(0), h)]

\* a position update that integrates the motion recorded at the last sample,
\* not the motion just updated
update_position_with_old_rate(self, h) ==
    [self EXCEPT !.position =
        rk4([kind |-> "velocity", veh |-> [self EXCEPT !.motion = old_motion]],
            self.position, R(0), h)]

\* self.position = rk4(f, self.position, 0.0, h)
update_position(self, h) ==
    [self EXCEPT !.position = rk4([kind |-> "velocity", veh |-> self], self.position, R(0), h)]

\* Vehicle::aoa
Vehicle_aoa(self) ==
    Angle_sub(Kinematics_angle(self.position), Kinematics_direction(self.motion))

---------------------------------------------------------------------------
(* main.rs: the simulation driver *)

\* MAX_SECONDS and STEPS_PER_SECOND, scaled down from 180 and 100
MAX_SECONDS == 3
STEPS_PER_SECOND == 2

MAX_INCREMENTS == MAX_SECONDS * STEPS_PER_SECOND

\* the altitude below which the elevator is deflected
PullUpAltitude == 7300

\* the elevator command with the threshold altitude itself counted as below
elevator_command_inclusive(self) ==
    Angle_from_degrees(
        IF RLe(Kinematics_y(self.position), R(PullUpAltitude)) THEN R(-3) ELSE R(0))

\* the pitch the driver hands to elev.set_pitch
elevator_command(self) ==
    Angle_from_degrees(
        IF RLt(Kinematics_y(self.position), R(PullUpAltitude)) THEN R(-3) ELSE R(0))

\* the termination test with the comparison turned around
ground_impact_inverted(self) == RLe(R(0), Kinematics_y(self.position))

\* the termination test: vehicle.position.y() <= 0.0
ground_impact(self) == RLe(Kinematics_y(self.position), R(0))

\* the sample recorded for a step
datum(self) ==
    <<self.position[1], self.position[2],
      LET a == nice_deg(Vehicle_aoa(self)) IN IF RLt(a, R(0)) THEN RNeg(a) ELSE a>>

\* the sub-steps per call of apply_dynamics range over 1..MaxSubsteps
MaxSubsteps == 2

\* the vehicles simulated: no aerofoil area (the motion stays vertical, so
\* that the direction of the velocity is exact), at rest or climbing, level
\* or nose down, released at some altitude
DriverVehicles ==
    {Vehicle_new(m[1], m[2],
                 Kinematics_new(<<R(0), y>>, a),
                 Kinematics_new_raw(<<R(0), vy>>, R(0)),
                 Aerofoil_new(R(0), R(8), Angle_from_degrees(R(0)), FullLift, FullDrag, FullMoment),
                 Aerofoil_new(R(0), R(4), Angle_from_degrees(R(0)), FullLift, FullDrag, FullMoment)) :
        m \in {<<R(1), R(2)>>, <<R(100000), <<233, 5>>>>},
        y \in {R(5), R(100), R(PullUpAltitude), R(PullUpAltitude + 5)},
        a \in {R(0), RMul(R(3), RDiv(PiR, R(2)))},
        vy \in {R(0), R(10)}}

DriverIdle ==
    /\ pc = "done"
    /\ vehicle = Vehicle_new(R(1), R(2), Zero2 \o <<R(0)>>, Zero2 \o <<R(0)>>,
                     Aerofoil_new(R(0), R(8), R(0), FullLift, FullDrag, FullMoment),
                     Aerofoil_new(R(0), R(4), R(0), FullLift, FullDrag, FullMoment))
    /\ step = 0
    /\ substep = 0
    /\ substeps = 1
    /\ samples = <<>>
    /\ old_motion = vehicle.motion
    /\ ticks = 0
    /\ veh0 = vehicle

DriverInit ==
    /\ pc = "control"
    /\ vehicle \in DriverVehicles
    /\ step = 0
    /\ substep = 0
    /\ substeps \in 1..MaxSubsteps
    /\ samples = <<>>
    /\ old_motion = vehicle.motion
    /\ ticks = 0
    /\ veh0 = vehicle

\* vehicle.elev.set_pitch(...), then entry to apply_dynamics
ControlUpdate ==
    /\ pc = "control"
    /\ vehicle' = [vehicle EXCEPT !.elev = set_pitch(@, elevator_command(vehicle))]
    /\ substep' = 0
    /\ pc' = "rate"
    /\ UNCHANGED <<step, substeps, samples, old_motion, ticks, veh0>>
    /\ UNCHANGED <<angleVars, linVars, rkVars, aeroVars>>

\* apply_dynamics, first half of a sub-step: the motion
UpdateRate ==
    /\ pc = "rate"
    /\ vehicle' = update_motion(vehicle, time_step(substeps))
    /\ pc' = "pose"
    /\ UNCHANGED <<step, substep, substeps, samples, old_motion, ticks, veh0>>
    /\ UNCHANGED <<angleVars, linVars, rkVars, aeroVars>>

\* apply_dynamics, second half of a sub-step: the position
UpdatePose ==
    /\ pc = "pose"
    /\ vehicle' = update_position(vehicle, time_step(substeps))
    /\ substep' = substep + 1
    /\ ticks' = ticks + 1
    /\ pc' = IF substep + 1 < substeps THEN "rate" ELSE "sample"
    /\ UNCHANGED <<step, substeps, samples, old_motion, veh0>>
    /\ UNCHANGED <<angleVars, linVars, rkVars, aeroVars>>

\* data[i] = datum and the other records; old_motion = vehicle.motion
Sample ==
    /\ pc = "sample"
    /\ samples' = Append(samples, datum(vehicle))
    /\ old_motion' = vehicle.motion
    /\ pc' = "check"
    /\ UNCHANGED <<vehicle, step, substep, substeps, ticks, veh0>>
    /\ UNCHANGED <<angleVars, linVars, rkVars, aeroVars>>

\* if vehicle.position.y() <= 0.0 { break; } and the loop's own bound
GroundCheck ==
    /\ pc = "check"
    /\ IF ground_impact(vehicle)
       THEN pc' = "done" /\ step' = step
       ELSE /\ step' = step + 1
            /\ pc' = IF step + 1 < MAX_INCREMENTS THEN "control" ELSE "done"
    /\ UNCHANGED <<vehicle, substep, substeps, samples, old_motion, ticks, veh0>>
    /\ UNCHANGED <<angleVars, linVars, rkVars, aeroVars>>

DriverNext ==
    \/ ControlUpdate
    \/ UpdateRate
    \/ UpdatePose
    \/ Sample
    \/ GroundCheck

---------------------------------------------------------------------------
(* Specifications *)

\* each specification exercises one part of the program; the state of the
\* other parts is at rest

InitAngle == AngleInit /\ LinInit /\ RkIdle /\ AeroIdle /\ DriverIdle

SpecAngle == InitAngle /\ [][AngleNext]_vars

InitInterp == AngleInit /\ LinInit /\ RkIdle /\ AeroIdle /\ DriverIdle

SpecInterp == InitInterp /\ [][LinNext]_vars

InitRk4 == AngleInit /\ LinInit /\ RkInit /\ AeroIdle /\ DriverIdle

SpecRk4 == InitRk4 /\ [][RkNext]_vars

InitAero == AngleInit /\ LinInit /\ RkIdle /\ AeroInit /\ DriverIdle

SpecAero == InitAero /\ [][AeroNext]_vars

\* the driver
Init == AngleInit /\ LinInit /\ RkIdle /\ AeroIdle /\ DriverInit

Next == DriverNext

Spec == Init /\ [][Next]_vars

\* the positions of the driver
DriverPcs == {"control", "rate", "pose", "sample", "check", "done"}

\* the driver moves on to another position.  Each action of DriverNext is
\* guarded by pc alone and changes pc, so the steps of DriverNext are the
\* steps of Proceed and both are enabled exactly while pc # "done".
Proceed == pc # "done" /\ pc' \in DriverPcs \ {pc}

\* the driver, which runs on without pause: a single thread with no
\* blocking call in its loop
FairSpec == Spec /\ WF_pc(Proceed)

---------------------------------------------------------------------------
(* Claims about Linear *)

\* the table meets Linear's precondition: at least two samples, x strictly
\* increasing
ValidTable(data) ==
    /\ Len(data) >= 2
    /\ \A k \in 1..(Len(data) - 1) : RLt(data[k][1], data[k + 1][1])

Interpolated == linPc = "constructed" /\ linOut.kind # "none"

\* C2: for a valid table and every sample index k, the first and the last
\* included, interpolate(data[k].x) returns data[k].y.
C2_ExactAtEverySample ==
    (Interpolated /\ ValidTable(linData)) =>
        \A k \in 1..Len(linData) :
            linX = linData[k][1] =>
                linOut.kind = "value" /\ linOut.val = linData[k][2]

\* C3: for x below the first sample the call returns the extrapolation of
\* the first segment, for x at or after the last sample that of the last
\* segment; it never aborts.
C3_ExtrapolatesOutsideDomain ==
    (Interpolated /\ ValidTable(linData)) =>
        LET n == Len(linData)
        IN  /\ RLt(linX, linData[1][1]) =>
                /\ linOut.kind = "value"
                /\ linOut.i = 0
                /\ linOut.val = Blend(linData, 0, 1, linX)
            /\ RLe(linData[n][1], linX) =>
                /\ linOut.kind = "value"
                /\ linOut.i = n - 2
                /\ linOut.val = Blend(linData, n - 2, n - 1, linX)

\* the greatest index (from 0) whose x is <= x, for x not below the table
Segment(data, x) ==
    CHOOSE i \in 0..(Len(data) - 1) :
        /\ RLe(data[i + 1][1], x)
        /\ \A k \in 0..(Len(data) - 1) : RLe(data[k + 1][1], x) => k <= i

StrictlyInside(data, x) ==
    \E k \in 1..(Len(data) - 1) : RLt(data[k][1], x) /\ RLt(x, data[k + 1][1])

\* C4: for a valid table and x strictly between two adjacent samples
\* (x0,y0), (x1,y1), interpolate selects that segment (i the greatest index
\* with data[i].x <= x) and returns y0 + (x - x0)/(x1 - x0) * (y1 - y0);
\* for the table [(0,0),(10,1)], interpolate(5) = 1/2.
C4_LinearBetweenSamples ==
    (Interpolated /\ ValidTable(linData) /\ StrictlyInside(linData, linX)) =>
        LET i  == Segment(linData, linX)
            x0 == linData[i + 1][1]
            y0 == linData[i + 1][2]
            x1 == linData[i + 2][1]
            y1 == linData[i + 2][2]
        IN  /\ linOut.kind = "value"
            /\ linOut.i = i
            /\ RMul(RSub(linOut.val, y0), RSub(x1, x0))
                   = RMul(RSub(linX, x0), RSub(y1, y0))
            /\ (linData = ExampleTable /\ linX = R(5)) => linOut.val = <<1, 2>>

C4_Witness ==
    /\ Interpolated
    /\ linData = ExampleTable
    /\ linX = R(5)
    /\ linOut = [kind |-> "value", i |-> 0, val |-> <<1, 2>>]

\* C5: a table with fewer than two samples, or whose x is not strictly
\* increasing, is rejected by Linear::new: no such Linear ever exists.
C5_InvalidTableRejected == linPc = "constructed" => ValidTable(linData)

---------------------------------------------------------------------------
(* Claims about rk4 *)

---------------------------------------------------------------------------
(* Claims about the aerofoil *)

\* the table is valid and x lies in its domain, before its last sample
Covers(table, x) ==
    /\ ValidTable(table)
    /\ RLe(table[1][1], x)
    /\ RLt(x, table[Len(table)][1])

\* every table of the aerofoil covers the angle of attack it looks up
AerofoilCovered(af, k, dk) ==
    \A table \in {af.cl, af.cd, af.cm} : Covers(table, deg(aoa(af, k, dk)))

ZeroVelocity == Kinematics_vec(aeroIn.dk) = Zero2

AllCovered ==
    /\ AerofoilCovered(aeroIn.veh.wing, aeroIn.k, aeroIn.dk)
    /\ AerofoilCovered(aeroIn.veh.elev, aeroIn.k, aeroIn.dk)

\* C10: when the linear velocity is the zero vector and the tables cover
\* the looked-up angle, lift_force and drag_force return the zero vector,
\* pitching_moment returns 0, the velocity direction is the angle 0, no
\* lookup aborts, every result is finite, and the net force is weight plus
\* thrust.
C10_ZeroVelocityDegenerate ==
    (aeroPc # "idle" /\ ZeroVelocity /\ AllCovered) =>
        /\ aeroOut.kind = "value"
        /\ aeroOut.dir = R(0)
        /\ aeroPc = "forces" =>
              /\ aeroOut.lift = <<Zero2, Zero2>>
              /\ aeroOut.drag = <<Zero2, Zero2>>
              /\ aeroOut.moment = Zero2
        /\ aeroPc = "dynamics" =>
              /\ aeroOut.force =
                    VAdd(Thrust(aeroIn.veh, aeroIn.k, aeroIn.dk), Weight(aeroIn.veh))
              /\ aeroOut.force = VScale(aeroIn.veh.mass, Gravity)
              /\ \A c \in 1..3 : RIsFinite(aeroOut.accel[c])

C10_Witness ==
    /\ aeroPc = "forces"
    /\ ZeroVelocity
    /\ AllCovered
    /\ aeroIn.veh.wing.area = R(280)
    /\ aeroIn.veh.elev.area = R(40)
    /\ aeroIn.veh.elev.pitch = Angle_from_degrees(R(-3))
    /\ Kinematics_y(aeroIn.k) = R(7300)
    /\ aeroOut.kind = "value"

---------------------------------------------------------------------------
(* Claims about the driver *)

Altitude(sample) == sample[2]

C7_Safety ==
    /\ Len(samples) <= MAX_INCREMENTS
    \* while the loop runs, no recorded step has reached the ground
    /\ pc \in {"control", "rate", "pose", "sample"} =>
          \A k \in 1..Len(samples) : RLt(R(0), Altitude(samples[k]))
    \* only the last recorded step can have reached the ground
    /\ \A k \in 1..(Len(samples) - 1) : RLt(R(0), Altitude(samples[k]))
    \* at the end: ground impact, or else exactly MAX_INCREMENTS steps
    /\ pc = "done" =>
          /\ Len(samples) >= 1
          /\ samples[Len(samples)] = datum(vehicle)
          /\ ticks = Len(samples) * substeps
          /\ \/ RLe(Altitude(samples[Len(samples)]), R(0))
             \/ Len(samples) = MAX_INCREMENTS

\* C7: the simulation loop always terminates; it stops right after the
\* first step whose altitude is <= 0, with no control update, integration
\* step or sample after it, and otherwise after exactly MAX_INCREMENTS
\* steps.
C7_DriverTerminates ==
    /\ <>(pc = "done")
    /\ []C7_Safety
    /\ [][pc # "done" /\ pc' # pc]_vars

C7_Witness ==
    /\ pc = "done"
    /\ Len(samples) >= 2
    /\ Len(samples) < MAX_INCREMENTS
    /\ ground_impact(vehicle)

\* sqrt(2 * 100 / 9.81) seconds, to the millisecond
FallTime == <<4515, 1000>>

DroppedFrom100 ==
    /\ Kinematics_y(veh0.position) = R(100)
    /\ veh0.motion = Zero2 \o <<R(0)>>
    /\ veh0.wing.area = R(0)
    /\ veh0.elev.area = R(0)

\* C8: a vehicle with zero aerofoil areas and zero velocity, dropped from
\* 100 m, first has altitude <= 0 within one integration step of
\* t = 4.515 s, with horizontal position and orientation unchanged.
C8_BallisticFallTime ==
    DroppedFrom100 =>
        LET t == RDiv(R(ticks), R(substeps))
            h == time_step(substeps)
        IN  /\ vehicle.position[1] = veh0.position[1]
            /\ vehicle.position[3] = veh0.position[3]
            /\ pc # "pose" =>
                  /\ ground_impact(vehicle) => RLe(RSub(FallTime, h), t)
                  /\ RLe(RAdd(FallTime, h), t) => ground_impact(vehicle)

\* the signed error, in degrees, between the vehicle's orientation and the
\* orientation of the reversed net aerodynamic force
TrimError(self) ==
    LET aero == VAdd(F_w(self, self.position, self.motion),
                     F_e(self, self.position, self.motion))
    IN  nice_deg(Angle_sub(Kinematics_angle(self.position),
                           orientation(VScale(R(-1), aero))))

\* gains a proportional trim law could use
TrimGains == {<<1, 1000>>, <<1, 100>>, <<1, 10>>, R(1), <<-1, 1000>>, <<-1, 100>>, <<-1, 10>>, R(-1)}

---------------------------------------------------------------------------
(* Claims about Angle *)

\* C1: the radians stored in an Angle produced by from_radians,
\* from_degrees, +, -, += or -= lie in [0, 2*pi): never negative and never
\* equal to 2*pi.
C1_AngleInHalfOpenInterval == angle >= 0 /\ angle < TwoPi

\* the part of C1 that the code keeps: never negative, never above 2*pi
AngleInClosedInterval == angle >= 0 /\ angle <= TwoPi

---------------------------------------------------------------------------
(* Claims about the fields of the vehicle *)

\* the fields of an aerofoil other than its pitch
AerofoilFixed(af) == <<af.area, af.chord, af.cl, af.cd, af.cm>>

\* the fields of a vehicle that no operation is to change
VehicleFixed(self) ==
    <<self.mass, self.length, self.moment, AerofoilFixed(self.wing), AerofoilFixed(self.elev)>>

\* C11: after Vehicle::new the moment is mass * length^2 / 12; after any
\* sequence of apply_dynamics and elevator set_pitch calls the mass, length,
\* moment and each aerofoil's area, chord and tables are as constructed;
\* apply_dynamics changes only position and motion, and set_pitch only the
\* pitch of the elevator.
C11_FrameEffects ==
    /\ [](RMul(vehicle.moment, R(12)) = RMul(vehicle.mass, RMul(vehicle.length, vehicle.length)))
    /\ [](VehicleFixed(vehicle) = VehicleFixed(veh0))
    /\ [](vehicle.wing = veh0.wing)
    /\ [][(pc = "rate" \/ pc = "pose") =>
            (vehicle' = [vehicle EXCEPT !.position = vehicle'.position,
                                        !.motion = vehicle'.motion])]_vars
    /\ [][pc = "control" =>
            (vehicle' = [vehicle EXCEPT !.elev.pitch = vehicle'.elev.pitch])]_vars

C11_Witness ==
    /\ pc = "done"
    /\ Len(samples) >= 2
    /\ vehicle.position # veh0.position
    /\ vehicle.motion # veh0.motion
    /\ vehicle.elev.pitch # veh0.elev.pitch
    /\ vehicle.moment # vehicle.mass

---------------------------------------------------------------------------
(* Claims about calculate_dynamics *)

DynamicsEvaluated == aeroPc = "dynamics" /\ aeroOut.kind = "value"

\* the vector of magnitude length/2 pointing opposite the body axis
LeverArm(self, k) ==
    VScale(RNeg(RDiv(self.length, R(2))), Angle_unit(Kinematics_angle(k)))

\* the elevator's lift plus drag
ElevatorForce(self, k, dk) ==
    VAdd(lift_force(self.elev, k, dk), drag_force(self.elev, k, dk))

\* C12: the moment calculate_dynamics computes (before the division) is
\* wing pitching moment + elevator pitching moment + r_e x F_e, with r_e of
\* magnitude length/2 opposite the body axis and F_e the elevator's lift
\* plus drag; wing force, weight and thrust contribute nothing.
C12_NetMomentComposition ==
    DynamicsEvaluated =>
        LET veh == aeroIn.veh
            r   == LeverArm(veh, aeroIn.k)
            F   == ElevatorForce(veh, aeroIn.k, aeroIn.dk)
        IN  aeroOut.torque =
                RAdd(RAdd(pitching_moment(veh.wing, aeroIn.k, aeroIn.dk),
                          pitching_moment(veh.elev, aeroIn.k, aeroIn.dk)),
                     RSub(RMul(r[1], F[2]), RMul(r[2], F[1])))

C12_Witness ==
    /\ DynamicsEvaluated
    /\ aeroIn.veh.wing.area = R(280)
    /\ aeroIn.veh.elev.area = R(40)
    /\ Kinematics_vec(aeroIn.dk) # Zero2
    /\ cross(LeverArm(aeroIn.veh, aeroIn.k),
             ElevatorForce(aeroIn.veh, aeroIn.k, aeroIn.dk)) # R(0)
    /\ F_w(aeroIn.veh, aeroIn.k, aeroIn.dk) # Zero2
    /\ pitching_moment(aeroIn.veh.wing, aeroIn.k, aeroIn.dk) # R(0)
    /\ aeroOut.torque # R(0)

\* C15: the derivative calculate_dynamics returns has linear part net
\* force / mass and angular part net moment / moment of inertia.
C15_AngularUsesInertia ==
    DynamicsEvaluated =>
        /\ <<aeroOut.accel[1], aeroOut.accel[2]>> = VDiv(aeroOut.force, aeroIn.veh.mass)
        /\ aeroOut.accel[3] = RDiv(aeroOut.torque, aeroIn.veh.moment)

---------------------------------------------------------------------------
(* Claims about the order and the size of the integration steps *)

\* C13: in every iteration the elevator pitch is set before any force is
\* computed; in each sub-step the rate is updated before the pose and the
\* pose update integrates the rate as just updated; the sample is taken
\* after the pose update and before the ground-impact check.
C13_StepOrdering ==
    /\ [][/\ (pc' = "rate" /\ substep' = 0) =>
                pc = "control" /\ vehicle'.elev.pitch = elevator_command(vehicle)
          /\ (pc' = "rate" /\ substep' # 0) => pc = "pose"
          /\ pc' = "pose" => pc = "rate" /\ vehicle'.position = vehicle.position
          /\ pc = "pose" =>
                /\ vehicle'.motion = vehicle.motion
                /\ vehicle'.position =
                      rk4([kind |-> "velocity", veh |-> vehicle], vehicle.position,
                          R(0), time_step(substeps))
          /\ pc' = "sample" => pc = "pose" /\ substep' = substeps
          /\ pc' = "check" =>
                pc = "sample" /\ vehicle' = vehicle
                    /\ samples' = Append(samples, datum(vehicle))
          /\ pc = "check" => vehicle' = vehicle /\ samples' = samples]_vars
    /\ [](pc = "check" => samples[Len(samples)] = datum(vehicle))

C13_Witness ==
    /\ pc = "check"
    /\ Len(samples) >= 2
    /\ substeps = 2
    /\ vehicle.motion # veh0.motion
    /\ vehicle.position # veh0.position

\* C14: in each sub-step with h = 1/N and a constant acceleration a, the
\* rate is advanced by exactly h * a and the pose then by exactly
\* h * (the updated rate); N sub-steps cover one second.
C14_IncrementIsStepTimesDerivative ==
    [][LET h == time_step(substeps)
       IN  /\ pc = "rate" =>
                vehicle'.motion =
                    VAdd(vehicle.motion,
                         VScale(h, calculate_dynamics(vehicle, vehicle.position, vehicle.motion)))
           /\ pc = "pose" =>
                vehicle'.position = VAdd(vehicle.position, VScale(h, vehicle.motion))
           /\ pc' = "sample" => RMul(R(substep'), h) = R(1)]_vars

=============================================================================
